---- MODULE Spec2Model ----
(***************************************************************************)
(* The tiered memory subsystem of the assistant:                           *)
(*   - IntegratedMemorySystem (assistant/memory/integrated_memory_system)  *)
(*     short-term interactions in Redis, promotion and consolidation;      *)
(*   - SemanticMemoryStore (assistant/memory/advanced_tests/               *)
(*     semantic_memory_store) the long-term SQLite table of memories.      *)
(* Relevance, confidence and cosine similarity are kept in tenths         *)
(* (1.0 = 10), time in clock ticks.                                        *)
(***************************************************************************)
EXTENDS Integers, Sequences, FiniteSets, TLC

VARIABLES
    clock,          \* time.time()
    redis_data,     \* Redis string keys user:<u>:interaction:<ts> -> stored interaction
    redis_zset,     \* Redis sorted sets user:<u>:recent_contexts
    memories,       \* rows of the SQLite table memories, committed, in id order
    pc,             \* position of each calling thread
    frame,          \* locals of each thread's current (or last) call
    nAdds,          \* add_interaction calls begun (history)
    nEnds,          \* end_session calls begun (history)
    returned,       \* history: ops of the add_interaction calls that returned
    handed,         \* history: op -> times handed to _process_session_context
    api,            \* last direct call on a component and its outcome
    added_at,       \* history: op -> clock at which its pipeline executed
    interactions,   \* rows of the SQLite table interactions of BasicMemory
    audio_queue,    \* TextToSpeech.audio_queue, the clips put and not yet got
    is_speaking,    \* TextToSpeech.is_speaking
    music,          \* pygame.mixer.music: the clip loaded and get_busy()
    tts_pc,         \* position of each thread that uses TextToSpeech
    audio_data,     \* local audio_data of each such thread (0: none)
    spoken,         \* history: clips whose speak call has returned
    finished,       \* history: clips that have played to their end
    nSpeaks         \* speak calls begun (history)

(* the state of TextToSpeech and of the threads that use it *)
tts_vars == <<audio_queue, is_speaking, music, tts_pc, audio_data, spoken,
              finished, nSpeaks>>

vars == <<clock, redis_data, redis_zset, memories, pc, frame, nAdds, nEnds,
          returned, handed, api, added_at, interactions, tts_vars>>

-----------------------------------------------------------------------------
(* Bounds of the model *)

MaxAdds == 2
MaxEnds == 1
MaxClock == 1
MaxRows == 2
MaxBatch == 2

(* context_ttl, in clock ticks *)
ContextTtl == 2

Users == {"u1", "u2"}
(* main.py passes user_id="1" for every interaction: one user has a session *)
SessionUsers == {"u1"}
(* The threads that call the memory system: the conversation loop adds  *)
(* interactions, another thread ends sessions.                          *)
Producers == {"loop"}
Closers == {"closer"}
Procs == Producers \cup Closers

Nil == "nil"
None == "None"

-----------------------------------------------------------------------------
(* class Relevance *)

CRITICAL == 10
HIGH == 8
MEDIUM == 5
LOW == 2
IGNORE == 0

Max(S) == CHOOSE x \in S : \A y \in S : y <= x
Min2(a, b) == IF a <= b THEN a ELSE b
Abs(x) == IF x < 0 THEN -x ELSE x

-----------------------------------------------------------------------------
(* Texts.  A text is a (user_message, assistant_response) pair; each side  *)
(* is a sequence of lower-cased word stems.  topic is the maximum cosine   *)
(* similarity of the text's embedding to the importance topics, pos the    *)
(* place of its embedding: both come from the sentence-transformer model.  *)

Catalogue ==
    [allergy |-> [um |-> <<"i", "allerg", "peanuts">>, ar |-> <<"noted">>,
                  topic |-> 5, pos |-> 0],
     hi      |-> [um |-> <<"hi">>, ar |-> <<"hello">>, topic |-> 1, pos |-> 30],
     dog1    |-> [um |-> <<"my", "dog", "max">>, ar |-> <<"nice">>,
                  topic |-> 7, pos |-> 10],
     dog2    |-> [um |-> <<"max", "family">>, ar |-> <<"ok">>,
                  topic |-> 7, pos |-> 11],
     dog3    |-> [um |-> <<"max", "age">>, ar |-> <<"ok">>,
                  topic |-> 8, pos |-> 12],
     detail  |-> [um |-> <<"specific", "detail">>, ar |-> <<"ok">>,
                  topic |-> 9, pos |-> 20]]

Texts == DOMAIN Catalogue

SeqSet(s) == {s[i] : i \in DOMAIN s}

(* f"{user_message} {assistant_response}" *)
combined_text(user_message, assistant_response) ==
    user_message \o <<" ">> \o assistant_response

CombinedText(t) == combined_text(Catalogue[t].um, Catalogue[t].ar)

critical_patterns ==
    {"remember this", "important", "don't forget", "always", "never", "must",
     "prefer", "allerg", "call me", "my name"}

ignore_patterns == {"hi", "hello", "thank", "thanks", "okay", "bye"}

(* re.search of an unanchored pattern: some stem of the text is the pattern *)
Search(patterns, text) == SeqSet(text) \cap patterns # {}

(* re.search of ^word$: the whole text is the word *)
SearchAnchored(patterns, text) == \E w \in patterns : text = <<w>>

(* a mapping whose comparisons are not strict *)
TopicRelevanceInclusive(m) ==
    IF m >= 8 THEN HIGH ELSE IF m >= 6 THEN MEDIUM ELSE LOW

TopicRelevance(m) ==
    IF m > 8 THEN HIGH ELSE IF m > 6 THEN MEDIUM ELSE LOW

(* a detection that goes by the embedding alone *)
DetectRelevanceByEmbedding(user_message, assistant_response, max_similarity) ==
    TopicRelevance(max_similarity)

(* _detect_relevance on a message pair whose embedding has the given *)
(* maximum similarity to the importance topics                       *)
DetectRelevance(user_message, assistant_response, max_similarity) ==
    IF Search(critical_patterns, combined_text(user_message, assistant_response))
    THEN CRITICAL
    ELSE IF SearchAnchored(ignore_patterns,
                           combined_text(user_message, assistant_response))
    THEN IGNORE
    ELSE TopicRelevance(max_similarity)

_detect_relevance(t) ==
    DetectRelevance(Catalogue[t].um, Catalogue[t].ar, Catalogue[t].topic)

-----------------------------------------------------------------------------
(* _detect_category *)

Categories == <<"preferences", "personal", "health", "skills", "facts">>

category_patterns ==
    [preferences |-> {"prefer", "like", "enjoy", "rather", "instead"},
     personal    |-> {"name", "age", "live", "family", "job", "work"},
     health      |-> {"allerg", "health", "medical", "condition", "medication"},
     skills      |-> {"can", "know how", "able to", "experience", "skilled"},
     facts       |-> {"fact", "true", "always", "never", "must"}]

(* "User: <um>\nAssistant: <ar>", lower-cased *)
Rendered(t) == <<"user:">> \o Catalogue[t].um \o <<"assistant:">> \o Catalogue[t].ar

RECURSIVE JoinRendered(_)
JoinRendered(content) ==
    IF content = <<>> THEN <<>>
    ELSE Rendered(Head(content)) \o JoinRendered(Tail(content))

(* the Counter filled by the two loops, on the words of combined_text *)
CategoryCounter(words) ==
    [i \in DOMAIN Categories |->
        Cardinality(category_patterns[Categories[i]] \cap SeqSet(words))]

category_counts(content) == CategoryCounter(JoinRendered(content))

(* a vote that takes the last of the tied categories *)
MostCommonLast(counts) ==
    LET best == Max({counts[i] : i \in DOMAIN Categories})
    IN  IF best = 0 THEN "general"
        ELSE Categories[CHOOSE i \in DOMAIN Categories :
                 /\ counts[i] = best
                 /\ \A j \in DOMAIN Categories : counts[j] = best => i >= j]

(* category_counts.most_common(1)[0][0], or 'general' for an empty Counter: *)
(* the first of the categories with the highest count, in insertion order  *)
MostCommon(counts) ==
    LET best == Max({counts[i] : i \in DOMAIN Categories})
    IN  IF best = 0 THEN "general"
        ELSE Categories[CHOOSE i \in DOMAIN Categories :
                 /\ counts[i] = best
                 /\ \A j \in DOMAIN Categories : counts[j] = best => i <= j]

_detect_category(content) == MostCommon(category_counts(content))

-----------------------------------------------------------------------------
(* SemanticMemoryStore: encoding and the rows of the table memories.       *)
(* A content is a sequence of texts (<<>> is the empty string).           *)

(* self.model.encode(text): a float32 vector of the model's dimension *)
Encode(content) ==
    [dtype |-> "float32", dim |-> 384,
     pos |-> IF content = <<>> THEN 50 ELSE Catalogue[Head(content)].pos]

(* embedding.tobytes() *)
ToBytes(e) == [nbytes |-> 4 * e.dim, pos |-> e.pos]

(* np.frombuffer(blob): the default dtype is float64, 8 bytes an element *)
FromBuffer(b) == [dtype |-> "float64", dim |-> b.nbytes \div 8, pos |-> b.pos]

(* np.dot(a, b) / (norm(a) * norm(b)): defined for equal shapes only *)
CosineSimilarity(a, b) ==
    IF a.dim # b.dim THEN [ok |-> FALSE, error |-> "ValueError"]
    ELSE [ok |-> TRUE,
          val |-> LET d == Abs(a.pos - b.pos) IN IF d >= 10 THEN 0 ELSE 10 - d]

(* Column places of a row of  SELECT * FROM memories *)
ColId == 1
ColContent == 2
ColEmbedding == 3
ColCategory == 4
ColTimestamp == 5
ColMetadata == 6
ColConfidence == 7

(* an INSERT that gives every row the id 1 *)
InsertRowSameId(rows, content, category, metadata, confidence) ==
    Append(rows, <<1, content, ToBytes(Encode(content)), category,
                   clock, metadata, confidence>>)

(* INSERT INTO memories ...: the id is the next AUTOINCREMENT value *)
InsertRow(rows, content, category, metadata, confidence) ==
    Append(rows, <<Len(rows) + 1, content, ToBytes(Encode(content)), category,
                   clock, metadata, confidence>>)

(* _get_connection: commit when the body ends normally; a body that raises *)
(* skips the commit and close() discards what the connection inserted.     *)
_get_connection(committed, pending, raised) ==
    IF raised THEN committed ELSE pending

(* Subscript keys: row[3] and row['embedding'] *)
IntKey(i) == [kind |-> "int", i |-> i]
StrKey(s) == [kind |-> "str", name |-> s]

(* row[key] on a row of a connection with no row_factory (a tuple) *)
RowItem(row, key) ==
    IF key.kind = "int" /\ key.i + 1 \in DOMAIN row
    THEN [ok |-> TRUE, val |-> row[key.i + 1]]
    ELSE [ok |-> FALSE, error |-> "TypeError"]

(* results[:limit] *)
Slice(s, limit) ==
    IF limit >= 0 THEN SubSeq(s, 1, Min2(limit, Len(s)))
    ELSE SubSeq(s, 1, IF Len(s) + limit > 0 THEN Len(s) + limit ELSE 0)

(* results.sort(key=relevance, reverse=True): stable *)
RECURSIVE SortDesc(_, _)
SortDesc(s, keys) ==
    IF keys = {} THEN <<>>
    ELSE LET m == Max(keys)
         IN  SelectSeq(s, LAMBDA x : x.relevance = m) \o SortDesc(s, keys \ {m})

SortByRelevance(s) == SortDesc(s, {s[i].relevance : i \in DOMAIN s})

(* SELECT * FROM memories [WHERE category = ?]; "if category:" is false for *)
(* None and for the empty string                                           *)
SelectRows(rows, category) ==
    IF category \notin {None, ""} THEN SelectSeq(rows, LAMBDA r : r[ColCategory] = category)
    ELSE rows

(* The threshold test of the scan *)
AboveThreshold(similarity, min_similarity) == similarity >= min_similarity

(* A scan that appends every candidate row, neither decoding its embedding *)
(* nor testing the threshold                                               *)
RECURSIVE ScanRowsUnfiltered(_, _, _, _, _)
ScanRowsUnfiltered(cand, i, query_embedding, min_similarity, results) ==
    IF i > Len(cand) THEN [status |-> "returned", results |-> results]
    ELSE ScanRowsUnfiltered(cand, i + 1, query_embedding, min_similarity,
             Append(results,
                 [id |-> cand[i][ColId], content |-> cand[i][ColContent],
                  category |-> cand[i][ColCategory],
                  confidence |-> cand[i][ColConfidence], relevance |-> 0]))

(* The for-loop of search_memories over the cursor, from row i on *)
RECURSIVE ScanRows(_, _, _, _, _)
ScanRows(cand, i, query_embedding, min_similarity, results) ==
    IF i > Len(cand) THEN [status |-> "returned", results |-> results]
    ELSE LET emb == RowItem(cand[i], StrKey("embedding"))
         IN  IF ~emb.ok THEN [status |-> "raised", error |-> emb.error]
             ELSE LET sim == CosineSimilarity(query_embedding, FromBuffer(emb.val))
                  IN  IF ~sim.ok THEN [status |-> "raised", error |-> sim.error]
                      ELSE IF AboveThreshold(sim.val, min_similarity)
                      THEN ScanRows(cand, i + 1, query_embedding, min_similarity,
                               Append(results,
                                   [id |-> RowItem(cand[i], StrKey("id")).val,
                                    content |-> RowItem(cand[i], StrKey("content")).val,
                                    category |-> RowItem(cand[i], StrKey("category")).val,
                                    confidence |-> RowItem(cand[i], StrKey("confidence")).val,
                                    relevance |-> sim.val]))
                      ELSE ScanRows(cand, i + 1, query_embedding, min_similarity, results)

search_memories(rows, query, limit, min_similarity, category) ==
    LET scan == ScanRows(SelectRows(rows, category), 1, Encode(query),
                         min_similarity, <<>>)
    IN  IF scan.status = "raised" THEN scan
        ELSE [status |-> "returned",
              results |-> Slice(SortByRelevance(scan.results), limit)]

-----------------------------------------------------------------------------
(* IntegratedMemorySystem: the short-term store in Redis *)

(* The calls of add_interaction: a message pair and the relevance argument, *)
(* <<>> when omitted (None), <<r>> when given                              *)
SessionArgs ==
    {[text |-> "allergy", relevance |-> <<>>],
     [text |-> "dog1", relevance |-> <<>>],
     [text |-> "dog1", relevance |-> <<HIGH>>]}

NoInteraction == [timestamp |-> 0, relevance |-> 0, text |-> "", op |-> 0]

(* a key that leaves the user out *)
KeyWithoutUser(u, timestamp) == <<"u1", timestamp>>

(* _get_user_key(user_id, f"interaction:{timestamp}") *)
_get_user_key(u, timestamp) == <<u, timestamp>>

EmptyZset == [members |-> {}, exp |-> 0]

IdleFrame ==
    [call |-> "none", status |-> "none", user |-> Nil, interaction |-> NoInteraction,
     keys |-> <<>>, idx |-> 0, ints |-> <<>>]

(* redis.zrange(context_key, 0, -1): members by score, then by key *)
RECURSIVE ZRange(_)
ZRange(S) ==
    IF S = {} THEN <<>>
    ELSE LET m == CHOOSE x \in S : \A y \in S :
                      \/ x.score < y.score
                      \/ x.score = y.score /\ x.ts <= y.ts
         IN  <<m.ts>> \o ZRange(S \ {m})

(* redis.get(key): <<>> for None, <<value>> for a key that exists *)
RedisGet(key) == IF key \in DOMAIN redis_data THEN <<redis_data[key].val>> ELSE <<>>

(* similarity of the embeddings of two interactions' texts *)
Similarity(a, b) == CosineSimilarity(Encode(<<a>>), Encode(<<b>>)).val

(* interactions.sort(key=relevance, reverse=True) *)
SortInteractions(ints) == SortByRelevance(ints)

(* a j-loop that takes nothing but the seed *)
RelatedIndicesSeedOnly(ints, i, processed) == {i}

(* a j-loop that does not skip what earlier clusters took *)
RelatedIndicesAnyPlace(ints, i, processed) ==
    {i} \cup {j \in DOMAIN ints :
                 j # i /\ Similarity(ints[i].text, ints[j].text) > 8}

(* The j-loop of _combine_related_interactions for the seed at place i *)
RelatedIndices(ints, i, processed) ==
    {i} \cup {j \in DOMAIN ints \ processed :
                 j # i /\ Similarity(ints[i].text, ints[j].text) > 8}

RECURSIVE SetToSeq(_)
SetToSeq(S) ==
    IF S = {} THEN <<>> ELSE LET m == CHOOSE x \in S : \A y \in S : x <= y
                             IN  <<m>> \o SetToSeq(S \ {m})

(* a cluster whose category depends on what the store already holds *)
ClusterMemoryByStore(ints, related) ==
    LET order   == SetToSeq(related)
        content == [k \in DOMAIN order |-> ints[order[k]].text]
    IN  [content |-> content,
         category |-> IF memories = <<>> THEN _detect_category(content)
                      ELSE "general",
         relevance |-> Max({ints[k].relevance : k \in related}),
         source_indices |-> [k \in DOMAIN order |-> order[k] - 1]]

(* The memory built for one cluster; source_indices are Python's, from 0 *)
ClusterMemory(ints, related) ==
    LET order   == SetToSeq(related)
        content == [k \in DOMAIN order |-> ints[order[k]].text]
    IN  [content |-> content,
         category |-> _detect_category(content),
         relevance |-> Max({ints[k].relevance : k \in related}),
         source_indices |-> [k \in DOMAIN order |-> order[k] - 1]]

RECURSIVE CombineFrom(_, _, _)
CombineFrom(ints, i, processed) ==
    IF i > Len(ints) THEN <<>>
    ELSE IF i \in processed \/ ints[i].relevance <= LOW
    THEN CombineFrom(ints, i + 1, processed)
    ELSE LET related == RelatedIndices(ints, i, processed)
         IN  <<ClusterMemory(ints, related)>>
                 \o CombineFrom(ints, i + 1, processed \cup related)

(* a consolidation that leaves out what add_interaction already promoted *)
CombineUnpromoted(ints) ==
    CombineFrom(SelectSeq(ints, LAMBDA x : x.relevance < HIGH), 1, {})

_combine_related_interactions(ints) == CombineFrom(ints, 1, {})

(* a boost without the cap *)
SessionConfidenceUncapped(memory) == memory.relevance + 2

(* What _process_session_context passes to store_memory for one cluster *)
SessionConfidence(memory) == Min2(10, memory.relevance + 2)

(* a loop that stores the first cluster only *)
StoreClustersFirstOnly(rows, u, mems) ==
    IF mems = <<>> THEN rows
    ELSE InsertRow(rows, Head(mems).content, Head(mems).category,
                   [source |-> "session_context", timestamp |-> clock,
                    user_id |-> u,
                    original_interactions |-> Head(mems).source_indices],
                   SessionConfidence(Head(mems)))

RECURSIVE StoreClusters(_, _, _)
StoreClusters(rows, u, mems) ==
    IF mems = <<>> THEN rows
    ELSE StoreClusters(
             InsertRow(rows, Head(mems).content, Head(mems).category,
                       [source |-> "session_context", timestamp |-> clock,
                        user_id |-> u,
                        original_interactions |-> Head(mems).source_indices],
                       SessionConfidence(Head(mems))),
             u, Tail(mems))

(* A promotion test that leaves out relevance = HIGH *)
PromotesAboveHigh(relevance) == relevance > HIGH

(* The promotion test of add_interaction *)
Promotes(relevance) == relevance >= HIGH

(* What _extract_and_store_semantic_memory inserts *)
PromotedRow(rows, u, interaction) ==
    InsertRow(rows, <<interaction.text>>, _detect_category(<<interaction.text>>),
              [source |-> "direct_interaction", timestamp |-> interaction.timestamp,
               user_id |-> u, original_interactions |-> <<>>],
              interaction.relevance)

-----------------------------------------------------------------------------
(* TextToSpeech.__init__: an empty queue, is_speaking False, a mixer with  *)
(* nothing loaded, and the playback thread started at its queue.get()     *)
Callers == {"voice", "ui"}

Playback == "playback"

NoMusic == [clip |-> 0, busy |-> FALSE]

TtsInit ==
    /\ audio_queue = <<>>
    /\ is_speaking = FALSE
    /\ music = NoMusic
    /\ tts_pc = [t \in Callers \cup {Playback} |->
                    IF t = Playback THEN "get" ELSE "idle"]
    /\ audio_data = [t \in Callers \cup {Playback} |-> 0]
    /\ spoken = {}
    /\ finished = {}
    /\ nSpeaks = 0

Init ==
    /\ TtsInit
    /\ clock = 0
    /\ redis_data = [k \in {} |-> Nil]
    /\ redis_zset = [u \in Users |-> EmptyZset]
    /\ memories = <<>>
    /\ pc = [p \in Procs |-> "idle"]
    /\ frame = [p \in Procs |-> IdleFrame]
    /\ nAdds = 0
    /\ nEnds = 0
    /\ returned = {}
    /\ handed = [o \in {} |-> 0]
    /\ api = [op |-> "none"]
    /\ added_at = [o \in {} |-> 0]
    /\ interactions = <<>>

(* time passes without Redis dropping anything *)
ElapseKeepsData ==
    /\ clock' = clock + 1
    /\ UNCHANGED <<tts_vars, redis_data, redis_zset>>

(* time passes; Redis drops the keys whose time-to-live has elapsed *)
Elapse ==
    /\ clock' = clock + 1
    /\ redis_data' = [k \in {x \in DOMAIN redis_data : redis_data[x].exp > clock + 1}
                          |-> redis_data[k]]
    /\ redis_zset' = [u \in Users |->
           IF redis_zset[u].members # {} /\ redis_zset[u].exp <= clock + 1
           THEN EmptyZset ELSE redis_zset[u]]

Tick ==
    /\ clock < MaxClock
    /\ Elapse
    /\ UNCHANGED <<tts_vars, added_at, interactions, memories, pc, frame, nAdds, nEnds,
                   returned, handed, api>>

(* add_interaction, up to the promotion test; time.time() reads the clock *)
AddInteractionCall(p, u, t, r) ==
    /\ pc[p] = "idle"
    /\ nAdds < MaxAdds
    /\ LET now == clock
           relevance == IF r = <<>> THEN _detect_relevance(t) ELSE r[1]
           interaction == [timestamp |-> now, relevance |-> relevance,
                           text |-> t, op |-> nAdds + 1]
       IN  /\ frame' = [frame EXCEPT ![p] =
                  [IdleFrame EXCEPT !.call = "add", !.status = "running",
                                    !.user = u, !.interaction = interaction]]
           /\ pc' = [pc EXCEPT ![p] =
                  IF Promotes(relevance) THEN "add_store" ELSE "add_execute"]
    /\ nAdds' = nAdds + 1
    /\ UNCHANGED <<tts_vars, added_at, interactions, clock, redis_data, redis_zset, memories, nEnds, returned,
                   handed, api>>

(* _extract_and_store_semantic_memory: store_memory commits the row *)
AddStore(p) ==
    /\ pc[p] = "add_store"
    /\ memories' = PromotedRow(memories, frame[p].user, frame[p].interaction)
    /\ frame' = frame
    /\ pc' = [pc EXCEPT ![p] = "add_execute"]
    /\ UNCHANGED <<tts_vars, added_at, interactions, clock, redis_data, redis_zset, nAdds, nEnds, returned,
                   handed, api>>

(* store_memory raises (encoding or SQLite failure): nothing catches it, *)
(* add_interaction ends before pipeline.execute()                        *)
AddStoreRaises(p) ==
    /\ pc[p] = "add_store"
    /\ frame' = [frame EXCEPT ![p].status = "raised"]
    /\ pc' = [pc EXCEPT ![p] = "idle"]
    /\ UNCHANGED <<tts_vars, added_at, interactions, clock, redis_data, redis_zset, memories, nAdds, nEnds,
                   returned, handed, api>>

(* pipeline.execute(): SETEX, ZADD and EXPIRE in one transaction *)
AddExecute(p) ==
    /\ pc[p] = "add_execute"
    /\ LET u   == frame[p].user
           it  == frame[p].interaction
           key == _get_user_key(u, it.timestamp)
       IN  /\ redis_data' = [k \in DOMAIN redis_data \cup {key} |->
                  IF k = key THEN [val |-> it, exp |-> clock + ContextTtl]
                  ELSE redis_data[k]]
           /\ redis_zset' = [redis_zset EXCEPT ![u] =
                  [members |->
                       {m \in redis_zset[u].members : m.ts # it.timestamp}
                           \cup {[ts |-> it.timestamp, score |-> it.relevance]},
                   exp |-> clock + ContextTtl]]
           /\ returned' = returned \cup {it.op}
           /\ added_at' = [o \in DOMAIN added_at \cup {it.op} |->
                  IF o = it.op THEN clock ELSE added_at[o]]
    /\ frame' = [frame EXCEPT ![p].status = "returned"]
    /\ pc' = [pc EXCEPT ![p] = "idle"]
    /\ UNCHANGED <<tts_vars, interactions, clock, memories, nAdds, nEnds, handed, api>>

(* end_session: zrange of the user's recent contexts *)
EndSessionCall(p, u) ==
    /\ pc[p] = "idle"
    /\ nEnds < MaxEnds
    /\ LET keys == ZRange(redis_zset[u].members)
       IN  /\ frame' = [frame EXCEPT ![p] =
                  [IdleFrame EXCEPT !.call = "end", !.status = "running",
                                    !.user = u, !.keys = keys, !.idx = 1]]
           /\ pc' = [pc EXCEPT ![p] =
                  IF keys = <<>> THEN "es_process" ELSE "es_get"]
    /\ nEnds' = nEnds + 1
    /\ UNCHANGED <<tts_vars, added_at, interactions, clock, redis_data, redis_zset, memories, nAdds, returned,
                   handed, api>>

(* one turn of the loop: redis.get(key), kept "if data" *)
EsGet(p) ==
    /\ pc[p] = "es_get"
    /\ LET f    == frame[p]
           data == RedisGet(_get_user_key(f.user, f.keys[f.idx]))
       IN  /\ frame' = [frame EXCEPT ![p] =
                  [f EXCEPT !.ints = f.ints \o data,
                            !.idx = f.idx + 1]]
           /\ pc' = [pc EXCEPT ![p] =
                  IF f.idx = Len(f.keys) THEN "es_process" ELSE "es_get"]
    /\ UNCHANGED <<tts_vars, added_at, interactions, clock, redis_data, redis_zset, memories, nAdds, nEnds,
                   returned, handed, api>>

HandOver(ints) ==
    [o \in DOMAIN handed \cup {ints[i].op : i \in DOMAIN ints} |->
        (IF o \in DOMAIN handed THEN handed[o] ELSE 0)
        + Cardinality({i \in DOMAIN ints : ints[i].op = o})]

(* a clean-up that runs whether or not consolidation raised *)
AfterConsolidationFinally(failAt) == "es_cleanup"

(* where end_session goes after _process_session_context: on to the      *)
(* clean-up when it returned, out of the call when it raised             *)
AfterConsolidation(failAt) == IF failAt = 0 THEN "es_cleanup" ELSE "idle"

(* _process_session_context; failAt = k > 0: the k-th store_memory raises, *)
(* which ends end_session before the clean-up                             *)
EsProcess(p, failAt) ==
    /\ pc[p] = "es_process"
    /\ LET f    == frame[p]
           mems == _combine_related_interactions(SortInteractions(f.ints))
       IN  /\ failAt \in 0 .. Len(mems)
           /\ memories' = StoreClusters(memories, f.user,
                  IF failAt = 0 THEN mems ELSE SubSeq(mems, 1, failAt - 1))
           /\ frame' = [frame EXCEPT ![p] =
                  [f EXCEPT !.status = IF failAt = 0 THEN "running" ELSE "raised",
                            !.keys = IF failAt = 0 THEN f.keys ELSE <<>>,
                            !.idx = 0, !.ints = <<>>]]
           /\ pc' = [pc EXCEPT ![p] = AfterConsolidation(failAt)]
           /\ handed' = HandOver(f.ints)
    /\ UNCHANGED <<tts_vars, added_at, interactions, clock, redis_data, redis_zset, nAdds, nEnds, returned, api>>

(* the clean-up pipeline: DEL of every key read by zrange, DEL of the index *)
EsCleanup(p) ==
    /\ pc[p] = "es_cleanup"
    /\ LET f    == frame[p]
           dels == {_get_user_key(f.user, f.keys[i]) : i \in DOMAIN f.keys}
       IN  /\ redis_data' = [k \in DOMAIN redis_data \ dels |-> redis_data[k]]
           /\ redis_zset' = [redis_zset EXCEPT ![f.user] = EmptyZset]
    /\ frame' = [frame EXCEPT ![p].status = "returned", ![p].keys = <<>>]
    /\ pc' = [pc EXCEPT ![p] = "idle"]
    /\ UNCHANGED <<tts_vars, added_at, interactions, clock, memories, nAdds, nEnds, returned, handed, api>>

Next ==
    \/ Tick
    \/ \E p \in Producers, u \in SessionUsers, a \in SessionArgs :
          AddInteractionCall(p, u, a.text, a.relevance)
    \/ \E p \in Procs : AddStore(p)
    \/ \E p \in Procs : AddStoreRaises(p)
    \/ \E p \in Procs : AddExecute(p)
    \/ \E p \in Closers, u \in SessionUsers : EndSessionCall(p, u)
    \/ \E p \in Procs : EsGet(p)
    \/ \E p \in Procs, failAt \in 0 .. MaxAdds : EsProcess(p, failAt)
    \/ \E p \in Procs : EsCleanup(p)

Spec == Init /\ [][Next]_vars

-----------------------------------------------------------------------------
(* A session that outlasts the time-to-live of its entries *)

MaxTtlClock == 2

TtlArgs == {[text |-> "dog1", relevance |-> <<>>]}

TtlTick ==
    /\ clock < MaxTtlClock
    /\ Elapse
    /\ UNCHANGED <<tts_vars, added_at, interactions, memories, pc, frame, nAdds, nEnds,
                   returned, handed, api>>

NextTtl ==
    \/ TtlTick
    \/ \E p \in Producers, u \in SessionUsers, a \in TtlArgs :
          AddInteractionCall(p, u, a.text, a.relevance)
    \/ \E p \in Procs : AddExecute(p)
    \/ \E p \in Closers, u \in SessionUsers : EndSessionCall(p, u)
    \/ \E p \in Procs : EsGet(p)
    \/ \E p \in Procs, failAt \in 0 .. MaxAdds : EsProcess(p, failAt)
    \/ \E p \in Procs : EsCleanup(p)

SpecTtl == Init /\ [][NextTtl]_vars

-----------------------------------------------------------------------------
(* Two users on one IntegratedMemorySystem: the calls of Spec, made for   *)
(* either user, at one reading of time.time() so that both users' keys    *)
(* carry the same timestamp                                               *)

UsersArgs ==
    {[text |-> "dog1", relevance |-> <<MEDIUM>>],
     [text |-> "dog1", relevance |-> <<HIGH>>]}

NextUsers ==
    \/ \E p \in Producers, u \in Users, a \in UsersArgs :
          AddInteractionCall(p, u, a.text, a.relevance)
    \/ \E p \in Procs : AddStore(p)
    \/ \E p \in Procs : AddStoreRaises(p)
    \/ \E p \in Procs : AddExecute(p)
    \/ \E p \in Closers, u \in Users : EndSessionCall(p, u)
    \/ \E p \in Procs : EsGet(p)
    \/ \E p \in Procs, failAt \in 0 .. MaxAdds : EsProcess(p, failAt)
    \/ \E p \in Procs : EsCleanup(p)

SpecUsers == Init /\ [][NextUsers]_vars

-----------------------------------------------------------------------------
(* Direct calls on the SemanticMemoryStore *)

ContentArgs == {<<>>, <<"allergy">>, <<"dog1">>}
CategoryArgs == {"health", "personal"}
QueryArgs == {<<"allergy">>, <<"dog2">>}
LimitArgs == {-1, 1, 5}
MinSimilarityArgs == {-1, 5, 10, 11}
CategoryFilters == {None, "health", "personal"}

(* The dicts handed to batch_store_memories; the second gives a confidence *)
(* of 1.5, the last has no 'content' key                                  *)
BatchItems ==
    {[content |-> <<"allergy">>, category |-> "health"],
     [content |-> <<"dog1">>, confidence |-> 15],
     [category |-> "personal"]}

RECURSIVE SeqsUpTo(_, _)
SeqsUpTo(S, n) ==
    IF n = 0 THEN {<<>>}
    ELSE LET shorter == SeqsUpTo(S, n - 1)
         IN  shorter \cup {Append(q, x) : q \in {y \in shorter : Len(y) = n - 1}, x \in S}

(* memory.get(key, default) *)
DictGet(d, key, default) == IF key \in DOMAIN d THEN d[key] ELSE default

(* store_memory(content, category, confidence=1.0); fails: encode or the *)
(* INSERT raises, which store_memory passes on to its caller             *)
StoreMemory(content, category, fails) ==
    /\ Len(memories) < MaxRows
    /\ memories' = _get_connection(memories,
                       InsertRow(memories, content, category, [source |-> "api"], 10),
                       fails)
    /\ api' = [op |-> "store", content |-> content,
               status |-> IF fails THEN "raised" ELSE "returned",
               id |-> IF fails THEN 0 ELSE Len(memories) + 1]
    /\ UNCHANGED <<tts_vars, added_at, interactions, clock, redis_data, redis_zset, pc, frame, nAdds, nEnds,
                   returned, handed>>

(* search_memories(query, limit, min_similarity, category) *)
SearchMemories(query, limit, min_similarity, category) ==
    /\ api' = [op |-> "search", query |-> query, limit |-> limit,
               min_similarity |-> min_similarity, category |-> category,
               outcome |-> search_memories(memories, query, limit,
                                           min_similarity, category)]
    /\ UNCHANGED <<tts_vars, added_at, interactions, clock, redis_data, redis_zset, memories, pc, frame, nAdds,
                   nEnds, returned, handed>>

(* The loop of batch_store_memories inside one connection: memory['content'] *)
(* raises KeyError for a dict without that key                              *)
RECURSIVE BatchLoop(_, _, _, _)
BatchLoop(rows, items, k, ids) ==
    IF k > Len(items) THEN [raised |-> FALSE, rows |-> rows, ids |-> ids, at |-> 0]
    ELSE IF "content" \notin DOMAIN items[k]
    THEN [raised |-> TRUE, rows |-> rows, ids |-> ids, at |-> k]
    ELSE BatchLoop(InsertRow(rows, items[k].content,
                             DictGet(items[k], "category", "general"),
                             DictGet(items[k], "metadata", [source |-> "api"]),
                             DictGet(items[k], "confidence", 10)),
                   items, k + 1, Append(ids, Len(rows) + 1))

BatchStoreMemories(items) ==
    /\ Len(memories) + Len(items) <= MaxRows
    /\ LET run == BatchLoop(memories, items, 1, <<>>)
       IN  /\ memories' = _get_connection(memories, run.rows, run.raised)
           /\ api' = [op |-> "batch", items |-> items, before |-> Len(memories),
                      status |-> IF run.raised THEN "raised" ELSE "returned",
                      failed_at |-> run.at,
                      ids |-> IF run.raised THEN <<>> ELSE run.ids]
    /\ UNCHANGED <<tts_vars, added_at, interactions, clock, redis_data, redis_zset, pc, frame, nAdds, nEnds,
                   returned, handed>>

MemoryIdArgs == {1, 2, 3}

(* SELECT * FROM memories WHERE id = ?, fetchone(): None when no row has   *)
(* the id; otherwise the dict is built with row['id'], on a tuple          *)
get_memory_by_id(rows, memory_id) ==
    LET found == SelectSeq(rows, LAMBDA r : r[ColId] = memory_id)
    IN  IF found = <<>> THEN [status |-> "returned", result |-> None]
        ELSE LET item == RowItem(found[1], StrKey("id"))
             IN  IF item.ok
                 THEN [status |-> "returned", result |-> found[1]]
                 ELSE [status |-> "raised", error |-> item.error]

GetMemoryById(memory_id) ==
    /\ api' = [op |-> "get", memory_id |-> memory_id,
               outcome |-> get_memory_by_id(memories, memory_id)]
    /\ UNCHANGED <<tts_vars, clock, redis_data, redis_zset, memories, pc, frame, nAdds,
                   nEnds, returned, handed, added_at, interactions>>

NextStore ==
    \/ \E i \in MemoryIdArgs : GetMemoryById(i)
    \/ \E c \in ContentArgs, g \in CategoryArgs, fails \in BOOLEAN :
           StoreMemory(c, g, fails)
    \/ \E q \in QueryArgs, l \in LimitArgs, m \in MinSimilarityArgs,
          g \in CategoryFilters : SearchMemories(q, l, m, g)
    \/ \E items \in SeqsUpTo(BatchItems, MaxBatch) : BatchStoreMemories(items)

SpecStore == Init /\ [][NextStore]_vars

-----------------------------------------------------------------------------
(* BasicMemory: the table interactions, as used by Jarvis.listen_and_process *)

MaxInteractions == 2

BmColId == 1
BmColUserId == 2
BmColMessage == 3
BmColTimestamp == 4

BmTexts == {"dog1", "hi"}
BmLimitArgs == {0, 1, 5}

(* the user whose turn listen_and_process serves: user_id="1" *)
CurrentUser == "u1"

(* add_interaction(user_id, user_message, assistant_response); datetime.now() *)
(* reads the clock.  fails: sqlite3.Error, rolled back, logged, not raised   *)
BmAddInteraction(u, t, fails) ==
    /\ Len(interactions) < MaxInteractions
    /\ interactions' =
           IF fails THEN interactions
           ELSE Append(interactions, <<Len(interactions) + 1, u, t, clock>>)
    /\ api' = [op |-> "bm_add", user |-> u, text |-> t,
               status |-> IF fails THEN "logged" ELSE "returned"]
    /\ UNCHANGED <<tts_vars, clock, redis_data, redis_zset, memories, pc, frame, nAdds,
                   nEnds, returned, handed, added_at>>

(* The orders in which ORDER BY timestamp DESC may deliver the rows: every *)
(* arrangement with non-increasing timestamps (rows of equal timestamp     *)
(* come in an order SQLite does not fix)                                   *)
OrderByTimestampDesc(rows) ==
    {[i \in DOMAIN rows |-> rows[f[i]]] :
        f \in {g \in [DOMAIN rows -> DOMAIN rows] :
                 /\ \A i, j \in DOMAIN rows : i # j => g[i] # g[j]
                 /\ \A i, j \in DOMAIN rows :
                        i < j => rows[g[i]][BmColTimestamp] >= rows[g[j]][BmColTimestamp]}}

(* LIMIT ?: a negative limit means no limit *)
SqlLimit(rows, limit) ==
    IF limit < 0 \/ limit >= Len(rows) THEN rows ELSE SubSeq(rows, 1, limit)

(* SELECT user_message, assistant_response, timestamp *)
BmProject(rows) ==
    [i \in DOMAIN rows |-> <<rows[i][BmColMessage], rows[i][BmColTimestamp]>>]

(* SELECT ... FROM interactions ORDER BY timestamp DESC LIMIT ?: there is *)
(* no WHERE clause and no user_id parameter                               *)
get_recent_interactions(rows, limit) ==
    {BmProject(SqlLimit(ordered, limit)) : ordered \in OrderByTimestampDesc(rows)}

(* the rows of one user *)
RowsOfUser(rows, u) == SelectSeq(rows, LAMBDA r : r[BmColUserId] = u)

(* context = self.memory_system.get_recent_interactions(limit); fails: *)
(* sqlite3.Error, logged, [] returned                                  *)
BmGetRecentInteractions(limit, fails) ==
    /\ \E result \in get_recent_interactions(interactions, limit) :
           api' = [op |-> "bm_get_recent", limit |-> limit,
                   status |-> IF fails THEN "logged" ELSE "returned",
                   rows |-> IF fails THEN <<>> ELSE result]
    /\ UNCHANGED <<tts_vars, clock, redis_data, redis_zset, memories, pc, frame, nAdds,
                   nEnds, returned, handed, added_at, interactions>>

NextBasic ==
    \/ Tick
    \/ \E u \in Users, t \in BmTexts, fails \in BOOLEAN : BmAddInteraction(u, t, fails)
    \/ \E l \in BmLimitArgs, fails \in BOOLEAN : BmGetRecentInteractions(l, fails)

SpecBasic == Init /\ [][NextBasic]_vars

-----------------------------------------------------------------------------
(* Direct calls of _detect_relevance *)

MaxMessageLen == 2

Words == {"hi", "hello", "thanks", "okay", "bye", "remember this",
          "don't forget", "dog"}
UserMessages == SeqsUpTo(Words, MaxMessageLen)
AssistantResponses == {<<>>, <<"hello">>, <<"remember this">>}
TopicSimilarities == {1, 6, 7, 8, 9}

(* the arguments of the call are drawn at the start *)
InitDetect ==
    /\ TtsInit
    /\ clock = 0
    /\ redis_data = [k \in {} |-> Nil]
    /\ redis_zset = [u \in Users |-> EmptyZset]
    /\ memories = <<>>
    /\ pc = [p \in Procs |-> "idle"]
    /\ frame = [p \in Procs |-> IdleFrame]
    /\ nAdds = 0
    /\ nEnds = 0
    /\ returned = {}
    /\ handed = [o \in {} |-> 0]
    /\ added_at = [o \in {} |-> 0]
    /\ interactions = <<>>
    /\ \E um \in UserMessages, ar \in AssistantResponses, m \in TopicSimilarities :
           api = [op |-> "detect_relevance_call", user_message |-> um,
                  assistant_response |-> ar, max_similarity |-> m]

DetectRelevanceCall ==
    /\ api.op = "detect_relevance_call"
    /\ api' = [op |-> "detect_relevance", user_message |-> api.user_message,
               assistant_response |-> api.assistant_response,
               max_similarity |-> api.max_similarity,
               relevance |-> DetectRelevance(api.user_message,
                                             api.assistant_response,
                                             api.max_similarity)]
    /\ UNCHANGED <<tts_vars, clock, redis_data, redis_zset, memories, pc, frame, nAdds,
                   nEnds, returned, handed, added_at, interactions>>

NextDetect == DetectRelevanceCall

SpecDetect == InitDetect /\ [][NextDetect]_vars

-----------------------------------------------------------------------------
(* Direct calls of _process_session_context on a list of interactions *)

MaxSession == 3

(* message pair and relevance of the interactions handed in *)
SessionItems ==
    {[text |-> "dog1", relevance |-> LOW],
     [text |-> "dog1", relevance |-> MEDIUM],
     [text |-> "dog2", relevance |-> MEDIUM],
     [text |-> "dog2", relevance |-> HIGH],
     [text |-> "dog3", relevance |-> MEDIUM],
     [text |-> "dog3", relevance |-> CRITICAL],
     [text |-> "hi", relevance |-> MEDIUM]}

(* the list of interactions of a sequence of items: distinct timestamps *)
SessionList(items) ==
    [i \in DOMAIN items |->
        [timestamp |-> i, relevance |-> items[i].relevance,
         text |-> items[i].text, op |-> i]]

InitConsolidate ==
    /\ TtsInit
    /\ clock = 0
    /\ redis_data = [k \in {} |-> Nil]
    /\ redis_zset = [u \in Users |-> EmptyZset]
    /\ memories = <<>>
    /\ pc = [p \in Procs |-> "idle"]
    /\ frame = [p \in Procs |-> IdleFrame]
    /\ nAdds = 0
    /\ nEnds = 0
    /\ returned = {}
    /\ handed = [o \in {} |-> 0]
    /\ added_at = [o \in {} |-> 0]
    /\ interactions = <<>>
    /\ \E items \in SeqsUpTo(SessionItems, MaxSession) :
           api = [op |-> "process_call", original |-> SessionList(items),
                  interactions |-> SessionList(items), run |-> 0,
                  clusters |-> <<>>, before |-> 0, failed_at |-> 0,
                  status |-> "none"]

(* _process_session_context(user_id, interactions), called once and then   *)
(* once more.  The sort is in place: the caller's list is sorted           *)
(* afterwards.  copy: the call is given a fresh copy of the original list  *)
(* instead of the list of the last call.                                   *)
(* failAt = k > 0: store_memory raises for the k-th cluster, and the       *)
(* exception leaves the loop and the method.                               *)
ProcessSessionContext(u, copy, failAt) ==
    /\ api.op = "process_call" \/ (api.op = "process" /\ api.run = 1)
    /\ LET given  == IF copy THEN api.original ELSE api.interactions
           sorted == SortInteractions(given)
           mems   == _combine_related_interactions(sorted)
       IN  /\ failAt \in 0 .. Len(mems)
           /\ memories' = StoreClusters(memories, u,
                  IF failAt = 0 THEN mems ELSE SubSeq(mems, 1, failAt - 1))
           /\ api' = [op |-> "process", original |-> api.original,
                      interactions |-> sorted, run |-> api.run + 1,
                      clusters |-> mems, before |-> Len(memories),
                      failed_at |-> failAt,
                      status |-> IF failAt = 0 THEN "returned" ELSE "raised"]
    /\ UNCHANGED <<tts_vars, clock, redis_data, redis_zset, pc, frame, nAdds, nEnds,
                   returned, handed, added_at, interactions>>

NextConsolidate ==
    \E u \in SessionUsers, copy \in BOOLEAN, failAt \in 0 .. MaxSession :
        ProcessSessionContext(u, copy, failAt)

SpecConsolidate == InitConsolidate /\ [][NextConsolidate]_vars

-----------------------------------------------------------------------------
(* Direct calls of _detect_category *)

MaxCategoryWords == 3

CategoryWords == {"prefer", "like", "name", "family", "allerg", "always", "dog"}

(* the words of the joined, lower-cased content_list are drawn at the start *)
InitCategory ==
    /\ TtsInit
    /\ clock = 0
    /\ redis_data = [k \in {} |-> Nil]
    /\ redis_zset = [u \in Users |-> EmptyZset]
    /\ memories = <<>>
    /\ pc = [p \in Procs |-> "idle"]
    /\ frame = [p \in Procs |-> IdleFrame]
    /\ nAdds = 0
    /\ nEnds = 0
    /\ returned = {}
    /\ handed = [o \in {} |-> 0]
    /\ added_at = [o \in {} |-> 0]
    /\ interactions = <<>>
    /\ \E words \in SeqsUpTo(CategoryWords, MaxCategoryWords) :
           api = [op |-> "detect_category_call", words |-> words]

DetectCategoryCall ==
    /\ api.op = "detect_category_call"
    /\ api' = [op |-> "detect_category", words |-> api.words,
               category |-> MostCommon(CategoryCounter(api.words))]
    /\ UNCHANGED <<tts_vars, clock, redis_data, redis_zset, memories, pc, frame, nAdds,
                   nEnds, returned, handed, added_at, interactions>>

NextCategory == DetectCategoryCall

SpecCategory == InitCategory /\ [][NextCategory]_vars

-----------------------------------------------------------------------------
(* TextToSpeech: the threads that call Jarvis.speak_and_wait and the       *)
(* playback thread of _process_audio_queue.  A clip is named by the number *)
(* of the speak call that made it.                                         *)

MaxSpeaks == 2

rest_vars == <<clock, redis_data, redis_zset, memories, pc, frame, nAdds, nEnds,
               returned, handed, api, added_at, interactions>>

(* speak: the speech is generated and audio_queue.put(audio_data) *)
SpeakPut(c) ==
    /\ tts_pc[c] = "idle"
    /\ nSpeaks < MaxSpeaks
    /\ nSpeaks' = nSpeaks + 1
    /\ audio_queue' = Append(audio_queue, nSpeaks + 1)
    /\ audio_data' = [audio_data EXCEPT ![c] = nSpeaks + 1]
    /\ tts_pc' = [tts_pc EXCEPT ![c] = "speak_wait"]
    /\ UNCHANGED <<is_speaking, music, spoken, finished, rest_vars>>

(* speak: the request raises; the handler sets is_speaking False, nothing *)
(* is put, speak returns and speak_and_wait goes on to wait_until_done    *)
SpeakRaises(c) ==
    /\ tts_pc[c] = "idle"
    /\ nSpeaks < MaxSpeaks
    /\ nSpeaks' = nSpeaks + 1
    /\ is_speaking' = FALSE
    /\ audio_data' = [audio_data EXCEPT ![c] = 0]
    /\ tts_pc' = [tts_pc EXCEPT ![c] = "wait_is_speaking"]
    /\ UNCHANGED <<audio_queue, music, spoken, finished, rest_vars>>

(* speak: "while self.is_speaking: sleep" reads False and speak returns; *)
(* speak_and_wait then calls wait_until_done                              *)
SpeakReturn(c) ==
    /\ tts_pc[c] = "speak_wait"
    /\ ~is_speaking
    /\ spoken' = spoken \cup {audio_data[c]}
    /\ tts_pc' = [tts_pc EXCEPT ![c] = "wait_is_speaking"]
    /\ UNCHANGED <<audio_queue, is_speaking, music, audio_data, finished,
                   nSpeaks, rest_vars>>

(* wait_until_done: the left operand "self.is_speaking" reads False *)
WaitReadIsSpeaking(c) ==
    /\ tts_pc[c] = "wait_is_speaking"
    /\ ~is_speaking
    /\ tts_pc' = [tts_pc EXCEPT ![c] = "wait_empty"]
    /\ UNCHANGED <<audio_queue, is_speaking, music, audio_data, spoken,
                   finished, nSpeaks, rest_vars>>

(* wait_until_done: the right operand "not self.audio_queue.empty()"; an  *)
(* empty queue ends the loop and the call, otherwise sleep and test again *)
WaitReadEmpty(c) ==
    /\ tts_pc[c] = "wait_empty"
    /\ tts_pc' = [tts_pc EXCEPT ![c] =
                     IF audio_queue = <<>> THEN "waited" ELSE "wait_is_speaking"]
    /\ UNCHANGED <<audio_queue, is_speaking, music, audio_data, spoken,
                   finished, nSpeaks, rest_vars>>

(* speak_and_wait: time.sleep(1.0), set_state("idle") and return *)
SpeakAndWaitReturn(c) ==
    /\ tts_pc[c] = "waited"
    /\ tts_pc' = [tts_pc EXCEPT ![c] = "idle"]
    /\ audio_data' = [audio_data EXCEPT ![c] = 0]
    /\ UNCHANGED <<audio_queue, is_speaking, music, spoken, finished,
                   nSpeaks, rest_vars>>

(* _process_audio_queue: audio_data = self.audio_queue.get(), blocking *)
QueueGet ==
    /\ tts_pc[Playback] = "get"
    /\ audio_queue # <<>>
    /\ audio_data' = [audio_data EXCEPT ![Playback] = Head(audio_queue)]
    /\ audio_queue' = Tail(audio_queue)
    /\ tts_pc' = [tts_pc EXCEPT ![Playback] = "set_speaking"]
    /\ UNCHANGED <<is_speaking, music, spoken, finished, nSpeaks, rest_vars>>

(* _process_audio_queue: self.is_speaking = True *)
SetSpeaking ==
    /\ tts_pc[Playback] = "set_speaking"
    /\ is_speaking' = TRUE
    /\ tts_pc' = [tts_pc EXCEPT ![Playback] = "play"]
    /\ UNCHANGED <<audio_queue, music, audio_data, spoken, finished, nSpeaks,
                   rest_vars>>

(* _process_audio_queue: music.load(audio_data); music.play() *)
MusicPlay ==
    /\ tts_pc[Playback] = "play"
    /\ music' = [clip |-> audio_data[Playback], busy |-> TRUE]
    /\ tts_pc' = [tts_pc EXCEPT ![Playback] = "busy"]
    /\ UNCHANGED <<audio_queue, is_speaking, audio_data, spoken, finished,
                   nSpeaks, rest_vars>>

(* _process_audio_queue: load or play raises; the handler sets is_speaking *)
(* False and the loop goes back to the queue                              *)
MusicPlayRaises ==
    /\ tts_pc[Playback] = "play"
    /\ is_speaking' = FALSE
    /\ audio_data' = [audio_data EXCEPT ![Playback] = 0]
    /\ tts_pc' = [tts_pc EXCEPT ![Playback] = "get"]
    /\ UNCHANGED <<audio_queue, music, spoken, finished, nSpeaks, rest_vars>>

(* the mixer plays the loaded clip to its end: get_busy() becomes False *)
MusicEnds ==
    /\ music.busy
    /\ music' = [music EXCEPT !.busy = FALSE]
    /\ finished' = finished \cup {music.clip}
    /\ UNCHANGED <<audio_queue, is_speaking, tts_pc, audio_data, spoken,
                   nSpeaks, rest_vars>>

(* _process_audio_queue: "while music.get_busy(): sleep" reads False *)
BusyWaitEnds ==
    /\ tts_pc[Playback] = "busy"
    /\ ~music.busy
    /\ tts_pc' = [tts_pc EXCEPT ![Playback] = "clear"]
    /\ UNCHANGED <<audio_queue, is_speaking, music, audio_data, spoken,
                   finished, nSpeaks, rest_vars>>

(* _process_audio_queue: self.is_speaking = False; task_done() *)
ClearSpeaking ==
    /\ tts_pc[Playback] = "clear"
    /\ is_speaking' = FALSE
    /\ audio_data' = [audio_data EXCEPT ![Playback] = 0]
    /\ tts_pc' = [tts_pc EXCEPT ![Playback] = "get"]
    /\ UNCHANGED <<audio_queue, music, spoken, finished, nSpeaks, rest_vars>>

NextTts ==
    \/ \E c \in Callers : SpeakPut(c)
    \/ \E c \in Callers : SpeakRaises(c)
    \/ \E c \in Callers : SpeakReturn(c)
    \/ \E c \in Callers : WaitReadIsSpeaking(c)
    \/ \E c \in Callers : WaitReadEmpty(c)
    \/ \E c \in Callers : SpeakAndWaitReturn(c)
    \/ QueueGet
    \/ SetSpeaking
    \/ MusicPlay
    \/ MusicPlayRaises
    \/ MusicEnds
    \/ BusyWaitEnds
    \/ ClearSpeaking

SpecTts == Init /\ [][NextTts]_vars

-----------------------------------------------------------------------------
(* Properties *)

(* The interaction of op o can be retrieved by end_session: the index of *)
(* its user lists a key whose value is that interaction                  *)
Indexed(o) ==
    \E u \in Users : \E m \in redis_zset[u].members :
        /\ _get_user_key(u, m.ts) \in DOMAIN redis_data
        /\ redis_data[_get_user_key(u, m.ts)].val.op = o

CleanupStep(p) == pc[p] = "es_cleanup" /\ pc'[p] = "idle"

(* C1: under every interleaving of end_session(u) with add_interaction(u), *)
(* whatever the clean-up of end_session removes from the short-term store  *)
(* was read by that end_session and handed to the consolidator exactly     *)
(* once: no interaction whose add_interaction returned is lost or doubled. *)
C1_NoInteractionLost ==
    [][\A p \in Closers : CleanupStep(p) =>
          \A o \in returned :
              (Indexed(o) /\ ~Indexed(o)') =>
                  (o \in DOMAIN handed /\ handed[o] = 1)]_vars

(* A row of memories that is the promotion of this interaction of user u *)
IsPromotionOf(row, u, interaction) ==
    /\ row[ColContent] = <<interaction.text>>
    /\ row[ColMetadata].source = "direct_interaction"
    /\ row[ColMetadata].user_id = u
    /\ row[ColMetadata].timestamp = interaction.timestamp
    /\ row[ColConfidence] = interaction.relevance

C3_SessionCleared ==
    [][\A p \in Closers : CleanupStep(p) =>
          /\ \A k \in DOMAIN redis_data' : k[1] # frame[p].user
          /\ redis_zset'[frame[p].user].members = {}]_vars

(* C10: every add_interaction call ends by returning, also when the        *)
(* promotion failed, and when it ends the interaction is in the            *)
(* short-term store.                                                       *)
C10_PromotionFailureContained ==
    [][\A p \in Producers :
          (frame[p].call = "add" /\ pc[p] # "idle" /\ pc'[p] = "idle") =>
              /\ frame'[p].status = "returned"
              /\ LET key == _get_user_key(frame[p].user,
                                          frame[p].interaction.timestamp)
                 IN  /\ key \in DOMAIN redis_data'
                     /\ redis_data'[key].val = frame[p].interaction]_vars

-----------------------------------------------------------------------------
(* Properties of the SemanticMemoryStore, on the last direct call *)

(* Cosine similarity of the query's embedding and the embedding of a content *)
TrueSimilarity(query, content) == CosineSimilarity(Encode(query), Encode(content)).val

SearchDone == api.op = "search"

ValidSearchArgs ==
    api.min_similarity >= 0 /\ api.min_similarity <= 10 /\ api.limit >= 0

(* The places of the rows that pass the category filter and the threshold *)
Qualifying ==
    {i \in DOMAIN memories :
        /\ api.category # None => memories[i][ColCategory] = api.category
        /\ TrueSimilarity(api.query, memories[i][ColContent]) >= api.min_similarity}

ReturnedIds == {api.outcome.results[k].id : k \in DOMAIN api.outcome.results}

(* C4: a search reflects every Memory committed before it began: the search *)
(* returns, and a committed Memory that passes the category filter and the  *)
(* threshold is in the result whenever the limit leaves room for all.       *)
C4_SearchReflectsCommitted ==
    (SearchDone /\ ValidSearchArgs) =>
        /\ api.outcome.status = "returned"
        /\ Cardinality(Qualifying) <= api.limit =>
               \A i \in Qualifying : memories[i][ColId] \in ReturnedIds

C6_SortedTopLimit ==
    (SearchDone /\ ValidSearchArgs) =>
        /\ api.outcome.status = "returned"
        /\ LET res == api.outcome.results
           IN  /\ Len(res) = Min2(api.limit, Cardinality(Qualifying))
               /\ \A k \in DOMAIN res : res[k].id \in {memories[i][ColId] : i \in Qualifying}
               /\ \A k \in DOMAIN res : k > 1 => res[k - 1].relevance >= res[k].relevance
               /\ \A i \in Qualifying : \A k \in DOMAIN res :
                      memories[i][ColId] \notin ReturnedIds =>
                          TrueSimilarity(api.query, memories[i][ColContent])
                              <= res[k].relevance

(* C7: when item k of batch_store fails, the k-1 items before it stay *)
(* persisted and their ids reach the caller.                          *)
C7_BatchPartialSuccess ==
    (api.op = "batch" /\ api.status = "raised") =>
        /\ Len(memories) = api.before + api.failed_at - 1
        /\ Len(api.ids) = api.failed_at - 1

(* C8: store with empty content raises and persists nothing: no stored *)
(* Memory has empty content.                                           *)
C8_NoEmptyContent ==
    /\ (api.op = "store" /\ api.content = <<>>) => api.status = "raised"
    /\ \A i \in DOMAIN memories : memories[i][ColContent] # <<>>

(* C9: search with min_similarity outside [0,1] or a negative limit fails *)
(* with an invalid-argument error.                                        *)
C9_InvalidArgumentRejected ==
    (SearchDone /\ ~ValidSearchArgs) =>
        /\ api.outcome.status = "raised"
        /\ api.outcome.error = "InvalidArgumentError"

-----------------------------------------------------------------------------
(* Properties of BasicMemory *)

(* C11: the context retrieved in a user's turn holds at most limit        *)
(* interactions, all of that user, most recent first, and they are the    *)
(* limit most recent ones of that user: it is one of the answers the same *)
(* query gives over that user's rows alone.                               *)
C11_RecentOfUser ==
    (api.op = "bm_get_recent" /\ api.status = "returned") =>
        /\ Len(api.rows) <= api.limit
        /\ api.rows \in get_recent_interactions(
                            RowsOfUser(interactions, CurrentUser), api.limit)

-----------------------------------------------------------------------------
(* Properties of the time-to-live *)

(* the time-to-live of the interaction of op o has elapsed *)
Expired(o) == clock >= added_at[o] + ContextTtl

(* some key of the short-term store holds the interaction of op o *)
Held(o) == \E k \in DOMAIN redis_data : redis_data[k].val.op = o

(* the interactions that a turn of end_session's read loop appends *)
NewlyRead(p) ==
    {frame'[p].ints[i] : i \in (Len(frame[p].ints) + 1) .. Len(frame'[p].ints)}

(* C12: an interaction is gone from the short-term store once its         *)
(* time-to-live has elapsed since it was added, whether or not            *)
(* end_session runs; and end_session reads no interaction whose           *)
(* time-to-live has elapsed, so none is handed to the consolidator.       *)
C12_ExpiredNotConsolidated ==
    [][/\ \A o \in DOMAIN added_at' : Expired(o)' => ~Held(o)'
       /\ \A p \in Closers :
            (pc[p] = "es_get" /\ frame'[p].call = "end") =>
                \A it \in NewlyRead(p) : ~Expired(it.op)]_vars

(* C12 witness: end_session listed two keys, one of them of an interaction *)
(* that had expired, and handed only the other to the consolidator         *)
C12_Witness ==
    \E p \in Closers :
        /\ pc[p] = "es_cleanup"
        /\ Len(frame[p].keys) = 2
        /\ \E o \in DOMAIN added_at : Expired(o) /\ o \notin DOMAIN handed
        /\ \E o \in DOMAIN added_at : o \in DOMAIN handed /\ handed[o] = 1

-----------------------------------------------------------------------------
(* Properties of the stored Memories *)

(* C13: in every reachable state every Memory of the long-term store has *)
(* a confidence within [0,1].                                            *)
C13_ConfidenceInRange ==
    \A i \in DOMAIN memories :
        memories[i][ColConfidence] >= 0 /\ memories[i][ColConfidence] <= 10

(* the ids of the stored Memories *)
StoredIds == {memories[i][ColId] : i \in DOMAIN memories}

(* C14: search and get_by_id leave the stored Memories unchanged; the    *)
(* stored Memories change only by store and batch_store, which keep the  *)
(* Memories already stored and add Memories whose ids differ from each   *)
(* other and from every id already in the store.                         *)
C14_StoreFrame ==
    [][/\ api'.op \in {"search", "get"} => memories' = memories
       /\ memories' # memories => api'.op \in {"store", "batch"}
       /\ Len(memories') >= Len(memories)
       /\ SubSeq(memories', 1, Len(memories)) = memories
       /\ \A i \in (Len(memories) + 1) .. Len(memories') :
              /\ memories'[i][ColId] \notin StoredIds
              /\ \A j \in (Len(memories) + 1) .. Len(memories') :
                     i # j => memories'[i][ColId] # memories'[j][ColId]]_vars

(* C14 witness: get_by_id has run on a table of two Memories, whose ids differ *)
C14_Witness ==
    /\ api.op = "get"
    /\ Len(memories) = 2
    /\ memories[1][ColId] # memories[2][ColId]

-----------------------------------------------------------------------------
(* Properties of the relevance detection *)

must_remember_patterns == {"remember this", "don't forget"}
bare_greetings == {"hi", "hello", "thanks", "okay", "bye"}

DetectDone == api.op = "detect_relevance"

(* C15: a message pair whose combined text holds a must-remember pattern *)
(* is classified CRITICAL, whatever else matches and whatever the        *)
(* embedding similarity.                                                 *)
C15_MustRememberIsCritical ==
    (/\ DetectDone
     /\ Search(must_remember_patterns,
               api.user_message \o api.assistant_response))
        => api.relevance = CRITICAL

(* C15 witness: the user message is a bare greeting, the response holds  *)
(* "remember this", the embedding alone would say LOW: CRITICAL all the  *)
(* same                                                                  *)
C15_Witness ==
    /\ DetectDone
    /\ api.user_message = <<"hi">>
    /\ api.assistant_response = <<"remember this">>
    /\ TopicRelevance(api.max_similarity) = LOW
    /\ api.relevance = CRITICAL

(* C16: a message pair whose user message is a bare greeting or           *)
(* acknowledgment, and which holds no critical pattern, is classified     *)
(* IGNORE.                                                                *)
C16_BareGreetingIgnored ==
    (/\ DetectDone
     /\ \E w \in bare_greetings : api.user_message = <<w>>
     /\ ~Search(critical_patterns, api.assistant_response))
        => api.relevance = IGNORE

-----------------------------------------------------------------------------
(* Properties of the consolidation, on the last call of *)
(* _process_session_context                             *)

ProcessDone == api.op = "process"

(* the rows that the last call added *)
AddedRows == SubSeq(memories, api.before + 1, Len(memories))

(* C17: n interactions, none >= HIGH, all > LOW, pairwise similar above  *)
(* 0.8: consolidation creates exactly one Memory, whose                  *)
(* original_interactions lists all n source indices.                     *)
C17_OneMemoryForSimilar ==
    LET ints == api.interactions
    IN  (/\ ProcessDone
         /\ api.failed_at = 0
         /\ ints # <<>>
         /\ \A i \in DOMAIN ints :
                ints[i].relevance > LOW /\ ints[i].relevance < HIGH
         /\ \A i, j \in DOMAIN ints :
                i # j => Similarity(ints[i].text, ints[j].text) > 8)
            => /\ Len(AddedRows) = 1
               /\ LET listed == AddedRows[1][ColMetadata].original_interactions
                  IN  /\ Len(listed) = Len(ints)
                      /\ SeqSet(listed) = 0 .. (Len(ints) - 1)

(* C17 witness: three such interactions, of two different texts, gave one Memory *)
C17_Witness ==
    /\ ProcessDone
    /\ api.failed_at = 0
    /\ Len(api.interactions) = 3
    /\ \A i \in DOMAIN api.interactions : api.interactions[i].relevance = MEDIUM
    /\ {api.interactions[i].text : i \in DOMAIN api.interactions} = {"dog1", "dog2"}
    /\ Len(AddedRows) = 1
    /\ Len(AddedRows[1][ColMetadata].original_interactions) = 3

C19_ClusterFailureContained ==
    (ProcessDone /\ api.failed_at > 0) =>
        /\ Len(AddedRows) = Len(api.clusters) - 1
        /\ api.status = "returned"

(* C20: an interaction with relevance <= LOW is in no cluster: its index *)
(* is in no cluster's source_indices.                                    *)
C20_LowNeverClustered ==
    ProcessDone =>
        \A c \in DOMAIN api.clusters :
            \A k \in DOMAIN api.clusters[c].source_indices :
                api.interactions[api.clusters[c].source_indices[k] + 1].relevance > LOW

-----------------------------------------------------------------------------
(* Properties of the embedding fallback *)

(* neither pattern stage matches the combined text of the last call *)
NoPatternMatches ==
    LET text == combined_text(api.user_message, api.assistant_response)
    IN  ~Search(critical_patterns, text) /\ ~SearchAnchored(ignore_patterns, text)

(* C21: when neither pattern stage matches, the maximum topic similarity *)
(* m gives HIGH if m > 0.8, MEDIUM if 0.6 < m <= 0.8, LOW otherwise; the *)
(* fallback gives neither CRITICAL nor IGNORE.                           *)
C21_FallbackMapping ==
    (DetectDone /\ NoPatternMatches) =>
        /\ api.max_similarity > 8 => api.relevance = HIGH
        /\ (api.max_similarity > 6 /\ api.max_similarity <= 8)
               => api.relevance = MEDIUM
        /\ api.max_similarity <= 6 => api.relevance = LOW
        /\ api.relevance \notin {CRITICAL, IGNORE}

(* C21 witness: a similarity of exactly 0.8 gave MEDIUM *)
C21_Witness ==
    /\ DetectDone
    /\ NoPatternMatches
    /\ api.max_similarity = 8
    /\ api.relevance = MEDIUM

-----------------------------------------------------------------------------
(* Properties of the Memories that consolidation stores *)

(* the relevances of the interactions merged into the k-th cluster *)
MemberRelevances(k) ==
    {api.interactions[api.clusters[k].source_indices[i] + 1].relevance :
        i \in DOMAIN api.clusters[k].source_indices}

C23_OneStorePerCluster ==
    (ProcessDone /\ api.failed_at = 0) =>
        /\ Len(AddedRows) = Len(api.clusters)
        /\ \A k \in DOMAIN AddedRows :
               /\ AddedRows[k][ColMetadata].source = "session_context"
               /\ AddedRows[k][ColMetadata].user_id \in SessionUsers
               /\ AddedRows[k][ColMetadata].original_interactions
                      = api.clusters[k].source_indices
               /\ AddedRows[k][ColContent] = api.clusters[k].content

(* C23 witness: a pass with two clusters added two Memories *)
C23_Witness ==
    /\ ProcessDone
    /\ api.failed_at = 0
    /\ Len(api.clusters) = 2
    /\ Len(AddedRows) = 2
    /\ AddedRows[2][ColMetadata].source = "session_context"

-----------------------------------------------------------------------------
(* Properties of the category detection *)

(* the number of patterns of the i-th category found in the words *)
Hits(i) == Cardinality(category_patterns[Categories[i]] \cap SeqSet(api.words))

(* C24: category detection returns the category with the most pattern     *)
(* hits; on a tie the tied category that comes first in the order          *)
(* preferences, personal, health, skills, facts; general with no hit; the  *)
(* result is one of these six labels.                                      *)
C24_CategoryVote ==
    api.op = "detect_category" =>
        /\ api.category \in SeqSet(Categories) \cup {"general"}
        /\ (\A i \in DOMAIN Categories : Hits(i) = 0) <=> api.category = "general"
        /\ \A i \in DOMAIN Categories :
               api.category = Categories[i] =>
                   /\ \A j \in DOMAIN Categories : Hits(j) <= Hits(i)
                   /\ \A j \in DOMAIN Categories : j < i => Hits(j) < Hits(i)

(* C24 witness: preferences and personal tie with one hit each and *)
(* preferences is returned                                         *)
C24_Witness ==
    /\ api.op = "detect_category"
    /\ SeqSet(api.words) = {"prefer", "name"}
    /\ api.category = "preferences"

(* the rows that a step of _process_session_context appends *)
NewRows == {k \in DOMAIN memories' : k > Len(memories)}

(* C25: when end_session consolidates an interaction of relevance >= HIGH  *)
(* that is still in the short-term store, the Memory promoted from it by   *)
(* add_interaction (source direct_interaction) is in the table and stays   *)
(* there untouched, every add has promoted at most one row, and exactly    *)
(* one of the rows appended by the pass (source session_context) names the *)
(* interaction in its original_interactions: nothing is deduplicated.      *)
C25_PromotedAndConsolidated ==
    [][\A p \in Closers :
          (pc[p] = "es_process" /\ pc'[p] = "es_cleanup")
          => LET sorted == SortInteractions(frame[p].ints)
             IN  /\ \A k \in DOMAIN memories : memories'[k] = memories[k]
                 /\ Cardinality({k \in DOMAIN memories :
                        memories[k][ColMetadata].source = "direct_interaction"})
                        <= nAdds
                 /\ \A i \in DOMAIN sorted :
                        sorted[i].relevance >= HIGH
                        => /\ \E k \in DOMAIN memories :
                                  IsPromotionOf(memories[k], frame[p].user, sorted[i])
                           /\ Cardinality({k \in NewRows :
                                  /\ memories'[k][ColMetadata].source = "session_context"
                                  /\ \E n \in DOMAIN memories'[k][ColMetadata].original_interactions :
                                         memories'[k][ColMetadata].original_interactions[n] = i - 1
                                  /\ \E n \in DOMAIN memories'[k][ColContent] :
                                         memories'[k][ColContent][n] = sorted[i].text}) = 1
      ]_vars

(* C25 witness: end_session has consolidated, and the table holds a        *)
(* promoted row and a later session_context row with the same text         *)
C25_Witness ==
    \E p \in Closers :
        /\ pc[p] = "es_cleanup"
        /\ \E k, l \in DOMAIN memories :
               /\ k < l
               /\ memories[k][ColMetadata].source = "direct_interaction"
               /\ memories[k][ColConfidence] = HIGH
               /\ memories[l][ColMetadata].source = "session_context"
               /\ \E n \in DOMAIN memories[l][ColContent] :
                      <<memories[l][ColContent][n]>> = memories[k][ColContent]

(* C26: whenever wait_until_done returns, every clip put on the queue by a *)
(* speak call that returned earlier has finished playing.                  *)
C26_WaitUntilDoneComplete ==
    [][\A c \in Callers :
          (tts_pc[c] = "wait_empty" /\ tts_pc'[c] = "waited")
          => spoken \subseteq finished
      ]_vars

(* the clusters of the last pass whose provenance lists the place i *)
ClustersOf(i) ==
    {k \in DOMAIN api.clusters :
        \E n \in DOMAIN api.clusters[k].source_indices :
            api.clusters[k].source_indices[n] = i - 1}

(* C27: the clusters of one consolidation pass partition the eligible     *)
(* interactions: every interaction of relevance > LOW is in exactly one   *)
(* cluster, no index is in the provenance of two clusters (or twice in    *)
(* one), and every index listed is a place of the session list.           *)
C27_ClustersPartition ==
    ProcessDone
    => /\ \A i \in DOMAIN api.interactions :
              /\ api.interactions[i].relevance > LOW
                     => Cardinality(ClustersOf(i)) = 1
              /\ Cardinality(ClustersOf(i)) <= 1
       /\ \A k \in DOMAIN api.clusters :
              LET listed == api.clusters[k].source_indices
              IN  /\ \A n1, n2 \in DOMAIN listed :
                         n1 # n2 => listed[n1] # listed[n2]
                  /\ \A n \in DOMAIN listed :
                         listed[n] + 1 \in DOMAIN api.interactions

(* C27 witness: a pass over three interactions above LOW in which the      *)
(* second cluster's seed is similar to a member the first cluster took    *)
C27_Witness ==
    /\ ProcessDone
    /\ Len(api.interactions) = 3
    /\ Len(api.clusters) = 2
    /\ \A i \in DOMAIN api.interactions : api.interactions[i].relevance > LOW
    /\ Len(api.clusters[1].source_indices) = 2
    /\ \E n \in DOMAIN api.clusters[1].source_indices :
           Similarity(api.interactions[api.clusters[1].source_indices[n] + 1].text,
                      api.interactions[api.clusters[2].source_indices[1] + 1].text) > 8

(* the keys of the short-term store that hold an interaction of user u *)
HeldKeys(u) == {k \in DOMAIN redis_data : k[1] = u}

(* C28: before any end_session and before any time-to-live expiry, the     *)
(* number of short-term interactions held for a user equals the number of *)
(* add_interaction calls that have returned for that user (every call of  *)
(* this specification is made for the one session user), also when two    *)
(* calls obtained the same timestamp.                                      *)
C28_HeldCountEqualsAdds ==
    \A u \in SessionUsers :
        (nEnds = 0 /\ \A o \in returned : ~Expired(o))
        => /\ Cardinality(HeldKeys(u)) = Cardinality(returned)
           /\ Cardinality(redis_zset[u].members) = Cardinality(returned)

(* a step of the end_session call of thread p *)
EndSessionStep(p) == frame[p].call = "end" /\ (pc'[p] # pc[p] \/ frame'[p] # frame[p])

(* C29: if consolidation raises inside end_session(u), the call leaves the *)
(* short-term store as it was: the raising step ends the call without the *)
(* clean-up, the clean-up is reached only from a consolidation that       *)
(* returned, and no step of end_session before the clean-up changes a     *)
(* stored interaction or an index.                                        *)
C29_RaiseLeavesStore ==
    [][\A p \in Closers :
          /\ (pc[p] = "es_process" /\ frame'[p].status = "raised")
                 => pc'[p] = "idle"
          /\ (pc'[p] = "es_cleanup")
                 => frame'[p].status = "running"
          /\ ((EndSessionStep(p) \/ pc[p] # pc'[p]) /\ pc[p] # "es_cleanup")
                 => redis_data' = redis_data /\ redis_zset' = redis_zset
      ]_vars

(* C29 witness: end_session ended with consolidation raising at its second *)
(* cluster, and the user's interactions and index are still stored         *)
C29_Witness ==
    \E p \in Closers :
        /\ pc[p] = "idle"
        /\ frame[p].call = "end"
        /\ frame[p].status = "raised"
        /\ \E i \in DOMAIN memories :
               memories[i][ColMetadata].source = "session_context"
        /\ Cardinality(HeldKeys(frame[p].user)) = 2
        /\ Cardinality(redis_zset[frame[p].user].members) = 2

(* the short-term interactions of user v, by key *)
DataOf(v) == [k \in HeldKeys(v) |-> redis_data[k]]

(* C30: short-term state is isolated per user: no step of a call made for  *)
(* user u adds, changes or deletes a stored interaction or the index of a *)
(* different user v, and whatever end_session(u) reads for the            *)
(* consolidator is stored under a key of u and under no key of another    *)
(* user.                                                                  *)
C30_UserIsolation ==
    [][\A p \in Procs :
          (pc'[p] # pc[p])
          => /\ \A v \in Users \ {frame'[p].user} :
                    /\ DataOf(v)' = DataOf(v)
                    /\ redis_zset'[v] = redis_zset[v]
             /\ (pc[p] = "es_get")
                    => \A it \in NewlyRead(p) :
                           \A k \in DOMAIN redis_data :
                               redis_data[k].val.op = it.op => k[1] = frame[p].user
      ]_vars

(* C30 witness: end_session(u) has consolidated an interaction of u and    *)
(* returned while another user v holds an interaction of the same         *)
(* timestamp, still stored and indexed                                    *)
C30_Witness ==
    \E p \in Closers :
        /\ pc[p] = "idle"
        /\ frame[p].call = "end"
        /\ frame[p].status = "returned"
        /\ \E o \in DOMAIN handed : handed[o] = 1
        /\ HeldKeys(frame[p].user) = {}
        /\ \E v \in Users \ {frame[p].user} :
               /\ HeldKeys(v) # {}
               /\ redis_zset[v].members # {}

====
